---- MODULE Spec2Model ----
(***************************************************************************)
(* Model of dashboard1.py: the financial dashboard's data provider         *)
(* (get_default_data, parse_contents), its derivation and shaping layer    *)
(* (the eight build_* functions) and the upload callback update_dashboard. *)
(*                                                                         *)
(* Numbers are exact rationals n/d in lowest terms (the float64 values of  *)
(* the program, without rounding error); a blank cell is NaN.  A data      *)
(* frame is a record of its column names and its rows, each row a function *)
(* from column name to cell.                                               *)
(***************************************************************************)
EXTENDS Integers, Sequences, FiniteSets, TLC

VARIABLES contents, filename, dataset, result, shown, prev, calls

vars == <<contents, filename, dataset, result, shown, prev, calls>>

-----------------------------------------------------------------------------
(* Cells and arithmetic *)

Abs(x) == IF x < 0 THEN -x ELSE x

RECURSIVE GCD(_, _)
GCD(a, b) == IF b = 0 THEN a ELSE GCD(b, a % b)

\* a cell: a number n/d, NaN, or a text s
Cell(k, n, d, s) == [k |-> k, n |-> n, d |-> d, s |-> s]

Rat(n, d) ==
    LET g == GCD(Abs(n), Abs(d))
        sg == IF d < 0 THEN -1 ELSE 1
    IN  Cell("num", sg * (n \div g), sg * (d \div g), "")

Num(n) == Cell("num", n, 1, "")

NaN == Cell("nan", 0, 1, "")

Str(s) == Cell("str", 0, 1, s)

\* the value a division by zero leaves behind (inf, or an exception)
DivZero == Cell("divzero", 0, 1, "")

IsNum(c) == c.k = "num"

Add(a, b) ==
    IF IsNum(a) /\ IsNum(b) THEN Rat(a.n * b.d + b.n * a.d, a.d * b.d)
    ELSE IF a.k = "divzero" \/ b.k = "divzero" THEN DivZero ELSE NaN

Sub(a, b) ==
    IF IsNum(a) /\ IsNum(b) THEN Rat(a.n * b.d - b.n * a.d, a.d * b.d)
    ELSE IF a.k = "divzero" \/ b.k = "divzero" THEN DivZero ELSE NaN

Mul(a, b) ==
    IF IsNum(a) /\ IsNum(b) THEN Rat(a.n * b.n, a.d * b.d)
    ELSE IF a.k = "divzero" \/ b.k = "divzero" THEN DivZero ELSE NaN

Div(a, b) ==
    IF IsNum(b) /\ b.n = 0 THEN DivZero
    ELSE IF IsNum(a) /\ IsNum(b) THEN Rat(a.n * b.d, a.d * b.n)
    ELSE IF a.k = "divzero" \/ b.k = "divzero" THEN DivZero ELSE NaN

Range(s) == {s[i] : i \in DOMAIN s}

RECURSIVE SumSeq(_)
SumSeq(s) == IF s = <<>> THEN Num(0) ELSE Add(Head(s), SumSeq(Tail(s)))

\* a mean that divides by one less than the number of values
Mean_short_count(s) ==
    LET vals == SelectSeq(s, IsNum)
    IN  IF vals = <<>> THEN NaN ELSE Div(SumSeq(vals), Num(Len(vals) - 1))

\* a mean over the five most recent values only
Mean_last_five(s) ==
    LET vals == SelectSeq(s, IsNum)
        recent == SubSeq(vals, IF Len(vals) > 5 THEN Len(vals) - 4 ELSE 1, Len(vals))
    IN  IF vals = <<>> THEN NaN ELSE Div(SumSeq(recent), Num(Len(recent)))

\* Series.mean(): blank cells are skipped; no cell left gives NaN
Mean(s) ==
    LET vals == SelectSeq(s, IsNum)
    IN  IF vals = <<>> THEN NaN ELSE Div(SumSeq(vals), Num(Len(vals)))

\* Series * 100
Scale100(s) == [i \in DOMAIN s |-> Mul(s[i], Num(100))]

\* f"{x:,.0f}": the nearest integer, ties to even; "nan" for NaN
Fmt0(c) ==
    IF ~IsNum(c) THEN Str("nan")
    ELSE LET a  == Abs(c.n)
             q  == a \div c.d
             r2 == 2 * (a % c.d)
             up == r2 > c.d \/ (r2 = c.d /\ q % 2 = 1)
             m  == IF up THEN q + 1 ELSE q
         IN  Cell("fmt", IF c.n < 0 THEN -m ELSE m, 1, "")

-----------------------------------------------------------------------------
(* Data frames *)

Frame(columns, rows) == [columns |-> columns, rows |-> rows]

\* df[name]: the column as a series
Col(df, name) == [i \in DOMAIN df.rows |-> df.rows[i][name]]

\* df[cols].copy()
Select(df, cols) ==
    Frame(cols, [i \in DOMAIN df.rows |-> [c \in Range(cols) |-> df.rows[i][c]]])

\* df.rename(columns={old: new})
Rename(df, old, new) ==
    LET to(c) == IF c = old THEN new ELSE c
        from(c) == IF c = new THEN old ELSE c
    IN  Frame([i \in DOMAIN df.columns |-> to(df.columns[i])],
              [i \in DOMAIN df.rows |->
                  [c \in {to(x) : x \in Range(df.columns)} |-> df.rows[i][from(c)]]])

\* df.iloc[0]: the first row taken for the most recent period
ILocFirst(df) == df.rows[1]

\* df.iloc[-1]
ILocLast(df) == df.rows[Len(df.rows)]

\* pd.DataFrame({name: list, ...}) with integer literals; Year is text
Ints(s) == [i \in DOMAIN s |-> Num(s[i])]

Hundredths(s) == [i \in DOMAIN s |-> Rat(s[i], 100)]

-----------------------------------------------------------------------------
(* 1. The built-in sample data *)

years == <<Str("Year -4"), Str("Year -3"), Str("Year -2"), Str("Year -1"), Str("Year 0")>>

\* pd.DataFrame(dict): one row per index, one entry per key
FrameOf(columns, data) ==
    Frame(columns,
          [i \in 1..Len(data[columns[1]]) |-> [c \in Range(columns) |-> data[c][i]]])

rev_cols ==
    <<"Year", "Business 1", "Business 2", "Business 3", "Consolidated", "COGS",
      "Profit Margin ($)", "Profit Margin (%)">>

default_exp_cols ==
    <<"Year", "Salaries and Benefits", "Rent and Overhead",
      "Depreciation & Amortization", "Interest", "Total">>

default_revenue_df ==
    FrameOf(rev_cols,
        [c \in Range(rev_cols) |->
            CASE c = "Year" -> years
              [] c = "Business 1" -> Ints(<<102007, 118086, 131345, 142341, 150772>>)
              [] c = "Business 2" -> Ints(<<156387, 158882, 160034, 174988, 191520>>)
              [] c = "Business 3" -> Ints(<<134622, 138520, 143362, 145897, 148631>>)
              [] c = "Consolidated" -> Ints(<<393016, 415488, 434741, 463226, 490923>>)
              [] c = "COGS" -> Ints(<<207069, 206012, 218369, 227962, 243130>>)
              [] c = "Profit Margin ($)" -> Ints(<<26063, 34177, 43380, 64068, 70081>>)
              [] c = "Profit Margin (%)" -> Hundredths(<<7, 8, 10, 14, 14>>)])

default_expenses_df ==
    FrameOf(default_exp_cols,
        [c \in Range(default_exp_cols) |->
            CASE c = "Year" -> years
              [] c = "Salaries and Benefits" -> Ints(<<70854, 77974, 81616, 79006, 85735>>)
              [] c = "Rent and Overhead" -> Ints(<<32789, 35375, 35261, 38060, 39236>>)
              [] c = "Depreciation & Amortization" -> Ints(<<48741, 54450, 51615, 49631, 48241>>)
              [] c = "Interest" -> Ints(<<7500, 7500, 4500, 4500, 4500>>)
              [] c = "Total" -> Ints(<<159884, 175299, 172992, 171197, 177712>>)])

budget_items == <<"Revenue", "COGS", "Expenses", "Profit Margin", "Profit Margin (%)">>

budget_year0 ==
    [c \in Range(budget_items) |->
        CASE c = "Revenue" -> Num(475000)
          [] c = "COGS" -> Num(238000)
          [] c = "Expenses" -> Num(186000)
          [] c = "Profit Margin" -> Num(73500)
          [] c = "Profit Margin (%)" -> Rat(155, 1000)]

balance_items ==
    <<"Current Assets", "Non-current Assets", "Total Assets", "Current Liabilities",
      "Long-term Liabilities", "Shareholders' Equity",
      "Liabilities & Shareholders' Equity">>

balance_sheet ==
    [c \in Range(balance_items) |->
        CASE c = "Current Assets" -> Num(395685)
          [] c = "Non-current Assets" -> Num(589610)
          [] c = "Total Assets" -> Num(985295)
          [] c = "Current Liabilities" -> Num(135374)
          [] c = "Long-term Liabilities" -> Num(384962)
          [] c = "Shareholders' Equity" -> Num(464959)
          [] c = "Liabilities & Shareholders' Equity" -> Num(985295)]

Dataset(rev, exp, budget, bs) ==
    [revenue_df |-> rev, expenses_df |-> exp, budget |-> budget, bs |-> bs]

get_default_data ==
    Dataset(default_revenue_df, default_expenses_df, budget_year0, balance_sheet)

-----------------------------------------------------------------------------
(* 2. The upload: a contents string "<type>,<base64>" and a file name *)

\* str.lower() on the letters the file names use
Lower(ch) ==
    CASE ch = "Q" -> "q" [] ch = "C" -> "c" [] ch = "S" -> "s" [] ch = "V" -> "v"
      [] OTHER -> ch

lower(name) == [i \in DOMAIN name |-> Lower(name[i])]

endswith(name, suffix) ==
    /\ Len(name) >= Len(suffix)
    /\ SubSeq(name, Len(name) - Len(suffix) + 1, Len(name)) = suffix

\* the exception an upload ends with: its type and, for the column check, the
\* names its text lists
Error(type, missing) == [type |-> type, missing |-> missing]

NoError == Error("", <<>>)

Ok(data) == [ok |-> TRUE, data |-> data]

Err(e) == [ok |-> FALSE, error |-> e]

required_cols ==
    <<"Year", "Business 1", "Business 2", "Business 3", "Consolidated", "COGS",
      "Profit Margin ($)", "Profit Margin (%)", "Salaries and Benefits",
      "Rent and Overhead", "Depreciation & Amortization", "Interest",
      "Total Expenses">>

exp_cols ==
    <<"Year", "Salaries and Benefits", "Rent and Overhead",
      "Depreciation & Amortization", "Interest", "Total Expenses">>

\* contents.split(","), b64decode, read_csv / read_excel by file name suffix
decode_upload(c, name) ==
    IF c.commas # 1 THEN Err(Error("ValueError: unpack", <<>>))
    ELSE IF c.payload = "badb64" THEN Err(Error("binascii.Error", <<>>))
    ELSE IF endswith(lower(name), <<".", "c", "s", "v">>)
    THEN IF c.payload = "csv" THEN Ok(c.table)
         ELSE Err(Error("UnicodeDecodeError", <<>>))
    ELSE IF c.payload = "xlsx" THEN Ok(c.table)
         ELSE Err(Error("ValueError: not an Excel file", <<>>))

\* a parse that knows no legacy name
apply_legacy_alias_never(df) == df

\* a parse that lets the legacy column win whenever it is present
apply_legacy_alias_always(df) ==
    IF "Total" \in Range(df.columns)
    THEN LET others(c) == c # "Total Expenses"
         IN  Rename(Select(df, SelectSeq(df.columns, others)), "Total", "Total Expenses")
    ELSE df

\* the legacy column name
apply_legacy_alias(df) ==
    IF "Total" \in Range(df.columns) /\ "Total Expenses" \notin Range(df.columns)
    THEN Rename(df, "Total", "Total Expenses")
    ELSE df

\* a column check that reports the first absent column only
missing_columns_first_only(df) ==
    LET absent(c) == c \notin Range(df.columns)
        all == SelectSeq(required_cols, absent)
    IN  IF all = <<>> THEN <<>> ELSE <<Head(all)>>

missing_columns(df) ==
    LET absent(c) == c \notin Range(df.columns)
    IN  SelectSeq(required_cols, absent)

split_revenue(df) == Select(df, rev_cols)

split_expenses(df) == Rename(Select(df, exp_cols), "Total Expenses", "Total")

\* a budget taken from the upload: its mean consolidated revenue
upload_budget_from_rows(df) ==
    [get_default_data.budget EXCEPT !["Revenue"] = Mean(Col(df, "Consolidated"))]

\* the budget and the balance sheet an upload is given
upload_budget(df) == get_default_data.budget

upload_balance_sheet(df) == get_default_data.bs

parse_contents(c, name) ==
    LET dec == decode_upload(c, name)
    IN  IF ~dec.ok THEN dec
        ELSE LET df == apply_legacy_alias(dec.data)
                 missing == missing_columns(df)
             IN  IF missing # <<>>
                 THEN Err(Error("ValueError: Missing columns in uploaded file", missing))
                 ELSE Ok(Dataset(split_revenue(df), split_expenses(df),
                                 upload_budget(df), upload_balance_sheet(df)))

-----------------------------------------------------------------------------
(* 3. Derivation and shaping: the eight artifacts *)

build_business_unit_revenue_figure(revenue_df) ==
    [x |-> Col(revenue_df, "Year"),
     bars |-> <<Col(revenue_df, "Business 1"), Col(revenue_df, "Business 2"),
                Col(revenue_df, "Business 3")>>]

\* a figure whose scaling is kept in the frame: every later invocation scales
\* the percentage column once more
build_profit_margin_figure_in_place(revenue_df) ==
    [x |-> Col(revenue_df, "Year"),
     bar |-> Col(revenue_df, "Profit Margin ($)"),
     line |-> IF calls = 0
              THEN Scale100(Col(revenue_df, "Profit Margin (%)"))
              ELSE Scale100(Scale100(Col(revenue_df, "Profit Margin (%)")))]

build_profit_margin_figure(revenue_df) ==
    [x |-> Col(revenue_df, "Year"),
     bar |-> Col(revenue_df, "Profit Margin ($)"),
     line |-> Scale100(Col(revenue_df, "Profit Margin (%)"))]

\* df.iloc[-1] of a frame without rows raises IndexError
iloc_last_raises(df) == Len(df.rows) = 0

build_cumulative_revenue_figure(revenue_df) ==
    LET year0 == ILocLast(revenue_df)
        y == <<year0["Business 1"], year0["Business 2"], year0["Business 3"],
               year0["Consolidated"]>>
    IN  [x |-> <<"Business 1", "Business 2", "Business 3", "Consolidated">>,
         y |-> y,
         text |-> [i \in DOMAIN y |-> Fmt0(y[i])]]

build_expenses_figure(expenses_df) ==
    [x |-> Col(expenses_df, "Year"),
     areas |-> <<Col(expenses_df, "Salaries and Benefits"),
                 Col(expenses_df, "Rent and Overhead"),
                 Col(expenses_df, "Depreciation & Amortization"),
                 Col(expenses_df, "Interest")>>]

build_performance_summary_section(revenue_df, expenses_df) ==
    LET avg_revenue == Mean(Col(revenue_df, "Consolidated"))
        avg_cogs == Mean(Col(revenue_df, "COGS"))
        avg_exp == Mean(Col(expenses_df, "Total"))
        avg_prof == Mean(Col(revenue_df, "Profit Margin ($)"))
        avg_prof_pct == Mul(Mean(Col(revenue_df, "Profit Margin (%)")), Num(100))
        averages == <<avg_revenue, avg_cogs, avg_exp, avg_prof, avg_prof_pct>>
    IN  [perf_table |->
            [i \in DOMAIN budget_items |->
                [Metric |-> budget_items[i], Average |-> averages[i]]],
         perf_graph |->
            [x |-> Col(revenue_df, "Year"),
             series |-> <<Col(revenue_df, "Consolidated"),
                          Col(revenue_df, "COGS"),
                          Col(expenses_df, "Total"),
                          Col(revenue_df, "Profit Margin ($)"),
                          Scale100(Col(revenue_df, "Profit Margin (%)"))>>]]

\* a line that divides by its budget whatever the budget is
income_statement_record_unguarded(name, actual, budget) ==
    LET variance == Sub(actual, budget)
    IN  [Item |-> name, Actual |-> actual, Budget |-> budget,
         Variance |-> variance, VarPct |-> Mul(Div(variance, budget), Num(100))]

\* one line of the income statement: variance and its percentage of budget
income_statement_record(name, actual, budget) ==
    LET variance == Sub(actual, budget)
        var_pct == IF budget # Num(0)
                   THEN Mul(Div(variance, budget), Num(100))
                   ELSE NaN
    IN  [Item |-> name, Actual |-> actual, Budget |-> budget,
         Variance |-> variance, VarPct |-> var_pct]

build_income_statement_table(revenue_df, expenses_df, budget) ==
    LET year0_rev == ILocLast(revenue_df)
        year0_exp == ILocLast(expenses_df)
        lines == <<
            <<"Revenue", year0_rev["Consolidated"], budget["Revenue"]>>,
            <<"COGS", year0_rev["COGS"], budget["COGS"]>>,
            <<"Expenses", year0_exp["Total"], budget["Expenses"]>>,
            <<"Profit Margin", year0_rev["Profit Margin ($)"], budget["Profit Margin"]>>,
            <<"Profit Margin (%)", Mul(year0_rev["Profit Margin (%)"], Num(100)),
              Mul(budget["Profit Margin (%)"], Num(100))>> >>
    IN  [i \in DOMAIN lines |->
            income_statement_record(lines[i][1], lines[i][2], lines[i][3])]

PLRow(item, amount) == [Item |-> item, Amount |-> amount]

\* a listing whose profit is recomputed from revenue, COGS and expenses
build_pl_summary_table_recomputed(revenue_df, expenses_df) ==
    LET year0_rev == ILocLast(revenue_df)
        year0_exp == ILocLast(expenses_df)
    IN  <<PLRow("Revenue", year0_rev["Consolidated"]),
          PLRow("COGS", year0_rev["COGS"]),
          PLRow("", Str("")),
          PLRow("Salaries and Benefits", year0_exp["Salaries and Benefits"]),
          PLRow("Rent and Overhead", year0_exp["Rent and Overhead"]),
          PLRow("Depreciation & Amortization", year0_exp["Depreciation & Amortization"]),
          PLRow("Interest", year0_exp["Interest"]),
          PLRow("Total Expenses", year0_exp["Total"]),
          PLRow("", Str("")),
          PLRow("Net Operating Profit",
                Sub(Sub(year0_rev["Consolidated"], year0_rev["COGS"]), year0_exp["Total"]))>>

build_pl_summary_table(revenue_df, expenses_df) ==
    LET year0_rev == ILocLast(revenue_df)
        year0_exp == ILocLast(expenses_df)
    IN  <<PLRow("Revenue", year0_rev["Consolidated"]),
          PLRow("COGS", year0_rev["COGS"]),
          PLRow("", Str("")),
          PLRow("Salaries and Benefits", year0_exp["Salaries and Benefits"]),
          PLRow("Rent and Overhead", year0_exp["Rent and Overhead"]),
          PLRow("Depreciation & Amortization", year0_exp["Depreciation & Amortization"]),
          PLRow("Interest", year0_exp["Interest"]),
          PLRow("Total Expenses", year0_exp["Total"]),
          PLRow("", Str("")),
          PLRow("Net Operating Profit", year0_rev["Profit Margin ($)"])>>

build_balance_sheet_section(bs) ==
    [i \in DOMAIN balance_items |->
        [label |-> balance_items[i], value |-> Fmt0(bs[balance_items[i]])]]

\* an exception that ends the callback
Raised(error) == [kind |-> "raised", error |-> error]

\* the body of update_dashboard after the data provider: the builders in call
\* order and the nine outputs returned; the first builder that raises ends the
\* cycle
Derive(d, status) ==
    IF iloc_last_raises(d.revenue_df) \/ iloc_last_raises(d.expenses_df)
    THEN Raised("IndexError")
    ELSE [kind |-> "returned",
          fig_rev |-> build_business_unit_revenue_figure(d.revenue_df),
          fig_pm |-> build_profit_margin_figure(d.revenue_df),
          fig_cum |-> build_cumulative_revenue_figure(d.revenue_df),
          fig_exp |-> build_expenses_figure(d.expenses_df),
          perf_section |-> build_performance_summary_section(d.revenue_df, d.expenses_df),
          is_table |-> build_income_statement_table(d.revenue_df, d.expenses_df, d.budget),
          pl_table |-> build_pl_summary_table(d.revenue_df, d.expenses_df),
          bs_section |-> build_balance_sheet_section(d.bs),
          status |-> status]

-----------------------------------------------------------------------------
(* 4. The callback and the page *)

Status(kind, name, error) == [kind |-> kind, filename |-> name, error |-> error]

NoFilename == <<>>

\* the layout: the module-level default figures and tables, an empty status line
app_layout == Derive(get_default_data, Status("empty", NoFilename, NoError))

\* the data provider of one render cycle
select_data(c, name) ==
    IF c.kind = "none"
    THEN [data |-> get_default_data, status |-> Status("sample", NoFilename, NoError)]
    ELSE LET p == parse_contents(c, name)
         IN  IF p.ok
             THEN [data |-> p.data, status |-> Status("success", name, NoError)]
             ELSE [data |-> get_default_data, status |-> Status("failed", name, p.error)]

Idle == [kind |-> "idle"]

-----------------------------------------------------------------------------
(* Inputs *)

MaxRows == 2

MaxCalls == 2

Filenames ==
    {<<"q", ".", "c", "s", "v">>, <<"Q", ".", "C", "S", "V">>,
     <<"q", ".", "x", "l", "s", "x">>}

upload_cols == Range(required_cols) \cup {"Total"}

\* a period whose profit is not revenue - COGS - expenses and whose legacy
\* total differs from its total
RowA ==
    [c \in upload_cols |->
        CASE c = "Year" -> Str("Year 1")
          [] c = "Business 1" -> Num(10)
          [] c = "Business 2" -> Num(20)
          [] c = "Business 3" -> Num(30)
          [] c = "Consolidated" -> Num(60)
          [] c = "COGS" -> Num(25)
          [] c = "Profit Margin ($)" -> Num(5)
          [] c = "Profit Margin (%)" -> Rat(1, 4)
          [] c = "Salaries and Benefits" -> Num(8)
          [] c = "Rent and Overhead" -> Num(6)
          [] c = "Depreciation & Amortization" -> Num(4)
          [] c = "Interest" -> Num(2)
          [] c = "Total Expenses" -> Num(20)
          [] c = "Total" -> Num(21)]

\* an earlier label, a loss, a half, a blank cell
RowB ==
    [c \in upload_cols |->
        CASE c = "Year" -> Str("Year 0")
          [] c = "Business 1" -> Num(7)
          [] c = "Business 2" -> Num(0)
          [] c = "Business 3" -> Rat(11, 2)
          [] c = "Consolidated" -> Num(13)
          [] c = "COGS" -> Num(4)
          [] c = "Profit Margin ($)" -> Num(-3)
          [] c = "Profit Margin (%)" -> Rat(-3, 13)
          [] c = "Salaries and Benefits" -> Num(9)
          [] c = "Rent and Overhead" -> NaN
          [] c = "Depreciation & Amortization" -> Num(1)
          [] c = "Interest" -> Num(2)
          [] c = "Total Expenses" -> Num(12)
          [] c = "Total" -> Num(17)]

RowTemplates == {RowA, RowB}

RowSeqs == UNION {[1..n -> RowTemplates] : n \in 0..MaxRows}

Droppable == {"Year", "Interest"}

TotalVariants == {<<>>, <<"Total">>, <<"Total Expenses">>, <<"Total", "Total Expenses">>}

Layout(drop, totals) ==
    LET kept(c) == c \notin drop /\ c # "Total Expenses"
    IN  SelectSeq(required_cols, kept) \o totals

Layouts == {Layout(drop, t) : drop \in SUBSET Droppable, t \in TotalVariants}

Table(layout, rows) ==
    Frame(layout, [i \in DOMAIN rows |-> [c \in Range(layout) |-> rows[i][c]]])

\* a period whose consolidated revenue cell is blank
RowC == [RowA EXCEPT !["Year"] = Str("Year 2"), !["Consolidated"] = NaN]

\* files of five and of six periods, a file with a blank revenue cell, and a
\* file whose revenue cells are all blank
ExtraRowSeqs ==
    {<<RowA, RowB, RowA, RowA, RowB>>, <<RowB, RowA, RowA, RowA, RowA, RowA>>,
     <<RowA, RowC, RowB>>, <<RowC>>}

\* every row sequence for the layouts with all required columns, one for the
\* rest, and the longer files
UploadTables ==
    {Table(l, r) : l \in {x \in Layouts : Droppable \subseteq Range(x) /\ Len(x) > 11},
                   r \in RowSeqs}
    \cup {Table(l, <<RowA>>) : l \in Layouts}
    \cup {Table(Layout({}, <<"Total Expenses">>), r) : r \in ExtraRowSeqs}

Upload(commas, payload, table) ==
    [kind |-> "upload", commas |-> commas, payload |-> payload, table |-> table]

NoTable == Frame(<<>>, <<>>)

NoContents == [kind |-> "none", commas |-> 0, payload |-> "", table |-> NoTable]

UploadContents ==
    {Upload(1, "csv", t) : t \in UploadTables}
    \cup {Upload(1, "xlsx", Table(l, <<RowA>>)) : l \in Layouts}
    \cup {Upload(0, "csv", NoTable), Upload(2, "csv", NoTable), Upload(1, "badb64", NoTable)}

Events == {<<NoContents, NoFilename>>} \cup (UploadContents \X Filenames)

\* update_dashboard(contents, filename) up to its return or its exception
render_cycle(c, name) ==
    LET sel == select_data(c, name)
    IN  [contents |-> c, filename |-> name, dataset |-> sel.data,
         result |-> Derive(sel.data, sel.status)]

Cycles == {render_cycle(e[1], e[2]) : e \in Events}

-----------------------------------------------------------------------------
(* The page: one render cycle per upload event *)

Init ==
    /\ calls = 0
    /\ contents = NoContents
    /\ filename = NoFilename
    /\ dataset = get_default_data
    /\ result = Idle
    /\ shown = app_layout
    /\ prev = Idle

\* the callback fires; its outputs replace the page, an exception leaves the
\* page as it was
update_dashboard(cy) ==
    /\ contents' = cy.contents
    /\ filename' = cy.filename
    /\ dataset' = cy.dataset
    /\ result' = cy.result
    /\ shown' = IF cy.result.kind = "returned" THEN cy.result ELSE shown
    /\ UNCHANGED <<prev, calls>>

Next == \E cy \in Cycles : update_dashboard(cy)

Spec == Init /\ [][Next]_vars

-----------------------------------------------------------------------------
(* The derivation and shaping layer on its own: any budget, zero included,  *)
(* and the layer invoked again on the dataset it was given                  *)

LayerBudgets ==
    {[c \in Range(budget_items) |-> IF c \in z THEN Num(0) ELSE budget_year0[c]] :
        z \in SUBSET Range(budget_items)}

LayerFrames ==
    {get_default_data}
    \cup {parse_contents(Upload(1, "csv", Table(Layout({}, <<"Total Expenses">>), r)),
                         <<"q", ".", "c", "s", "v">>).data : r \in RowSeqs}

LayerDatasets ==
    {Dataset(f.revenue_df, f.expenses_df, b, f.bs) : f \in LayerFrames, b \in LayerBudgets}

InitLayer ==
    /\ calls = 0
    /\ contents = NoContents
    /\ filename = NoFilename
    /\ dataset \in LayerDatasets
    /\ result = Idle
    /\ shown = app_layout
    /\ prev = Idle

DeriveStep ==
    /\ calls < MaxCalls
    /\ result' = Derive(dataset, Status("sample", NoFilename, NoError))
    /\ prev' = result
    /\ calls' = calls + 1
    /\ shown' = IF result'.kind = "returned" THEN result' ELSE shown
    /\ UNCHANGED <<contents, filename, dataset>>

NextLayer == DeriveStep

SpecLayer == InitLayer /\ [][NextLayer]_vars

-----------------------------------------------------------------------------
(* Properties *)

SameArtifacts(r, q) ==
    /\ r.fig_rev = q.fig_rev
    /\ r.fig_pm = q.fig_pm
    /\ r.fig_cum = q.fig_cum
    /\ r.fig_exp = q.fig_exp
    /\ r.perf_section = q.perf_section
    /\ r.is_table = q.is_table
    /\ r.pl_table = q.pl_table
    /\ r.bs_section = q.bs_section

CsvNames == {<<"q", ".", "c", "s", "v">>, <<"Q", ".", "C", "S", "V">>}

\* the upload event carried a table that the reader for its file name decodes
DecodedTable ==
    /\ contents.kind = "upload"
    /\ contents.commas = 1
    /\ \/ contents.payload = "csv" /\ filename \in CsvNames
       \/ contents.payload = "xlsx" /\ filename \notin CsvNames

\* the required columns a table lacks, "Total" standing for "Total Expenses"
MissingAfterAlias(t) ==
    LET have == Range(t.columns)
                \cup (IF "Total" \in Range(t.columns) THEN {"Total Expenses"} ELSE {})
    IN  Range(required_cols) \ have

\* C1: every render cycle returns its nine outputs; no upload makes it raise.
C1_NeverRaises == result.kind \in {"idle", "returned"}

\* C2: a decoded table that lacks required columns (after the legacy alias) gives
\* the failure status listing exactly the absent required columns, once each,
\* and the eight artifacts of the default dataset.
C2_MissingColumnsRejected ==
    (DecodedTable /\ MissingAfterAlias(contents.table) # {}) =>
        /\ result.kind = "returned"
        /\ result.status.kind = "failed"
        /\ result.status.filename = filename
        /\ Range(result.status.error.missing) = MissingAfterAlias(contents.table)
        /\ Len(result.status.error.missing) = Cardinality(MissingAfterAlias(contents.table))
        /\ SameArtifacts(result, app_layout)

C2_Witness ==
    /\ DecodedTable
    /\ Cardinality(MissingAfterAlias(contents.table)) >= 2
    /\ "Total" \in Range(contents.table.columns)
    /\ result.kind = "returned"
    /\ result.status.kind = "failed"

\* C3 as stated: the whole actual/budget/variance table and the balance sheet
\* returned are those of the default dataset, whatever was uploaded.
C3_Original ==
    result.kind = "returned" =>
        /\ result.is_table = app_layout.is_table
        /\ result.bs_section = app_layout.bs_section

\* C3 amended: the Item and Budget columns of the actual/budget/variance table
\* and the balance sheet returned are those of the default dataset, whatever was
\* uploaded.
C3_BudgetAndBalanceFixed ==
    result.kind = "returned" =>
        /\ DOMAIN result.is_table = DOMAIN app_layout.is_table
        /\ \A i \in DOMAIN result.is_table :
              /\ result.is_table[i].Item = app_layout.is_table[i].Item
              /\ result.is_table[i].Budget = app_layout.is_table[i].Budget
        /\ result.bs_section = app_layout.bs_section

C3_Witness ==
    /\ result.kind = "returned"
    /\ result.status.kind = "success"
    /\ result.is_table # app_layout.is_table

\* a table with its "Total" column renamed to "Total Expenses"
TotalAsTotalExpenses(t) ==
    LET nm(c) == IF c = "Total" THEN "Total Expenses" ELSE c
    IN  Frame([i \in DOMAIN t.columns |-> nm(t.columns[i])],
              [i \in DOMAIN t.rows |->
                  [c \in {nm(x) : x \in Range(t.columns)} |->
                      t.rows[i][IF c = "Total Expenses" THEN "Total" ELSE c]]])

LegacyUpload ==
    /\ DecodedTable
    /\ "Total" \in Range(contents.table.columns)
    /\ "Total Expenses" \notin Range(contents.table.columns)
    /\ MissingAfterAlias(contents.table) = {}

\* C4: a well-formed table with "Total" and no "Total Expenses" is accepted, and
\* parse_contents returns the revenue and expense frames it returns for the
\* table with that column renamed; the expense "Total" values are the table's.
C4_LegacyTotalEquivalent ==
    LegacyUpload =>
        LET p == parse_contents(contents, filename)
            q == parse_contents(
                    Upload(1, contents.payload, TotalAsTotalExpenses(contents.table)),
                    filename)
        IN  /\ p.ok
            /\ q.ok
            /\ dataset.revenue_df = p.data.revenue_df
            /\ dataset.expenses_df = p.data.expenses_df
            /\ p.data.revenue_df = q.data.revenue_df
            /\ p.data.expenses_df = q.data.expenses_df
            /\ Col(dataset.expenses_df, "Total") = Col(contents.table, "Total")

C4_Witness ==
    /\ LegacyUpload
    /\ Len(contents.table.rows) = 2
    /\ result.kind = "returned"
    /\ result.status.kind = "success"
    /\ result.pl_table[8].Amount = contents.table.rows[2]["Total"]

\* C5: in every line of the actual/budget/variance table Variance is Actual
\* minus Budget; Var% is Variance / Budget * 100 when Budget is not zero and NaN
\* when it is; no value in the table comes from a division by zero.
C5_VarianceAndPercent ==
    result.kind = "returned" =>
        /\ Len(result.is_table) = 5
        /\ \A i \in DOMAIN result.is_table :
              LET rec == result.is_table[i]
                  a == rec.Actual
                  b == rec.Budget
                  v == rec.Variance
              IN  /\ rec.Item = budget_items[i]
                  /\ (IsNum(a) /\ IsNum(b)) =>
                        /\ IsNum(v)
                        /\ v.n * a.d * b.d = (a.n * b.d - b.n * a.d) * v.d
                  /\ ~IsNum(a) => (v = NaN /\ rec.VarPct = NaN)
                  /\ b = Num(0) => rec.VarPct = NaN
                  /\ (IsNum(v) /\ IsNum(b) /\ b.n # 0) =>
                        rec.VarPct = Rat(v.n * b.d * 100, v.d * b.n)
                  /\ \A f \in {a, b, v, rec.VarPct} : f.k # "divzero"

C5_Witness ==
    /\ result.kind = "returned"
    /\ dataset.revenue_df # default_revenue_df
    /\ \E i \in DOMAIN result.is_table :
          result.is_table[i].Budget = Num(0) /\ result.is_table[i].VarPct = NaN
    /\ \E i \in DOMAIN result.is_table :
          /\ result.is_table[i].Budget # Num(0)
          /\ IsNum(result.is_table[i].VarPct)
          /\ result.is_table[i].VarPct.n < 0

\* the most recent period's profit-margin amount of the data a cycle rendered
LastProfitMargin ==
    IF result.status.kind = "success"
    THEN contents.table.rows[Len(contents.table.rows)]["Profit Margin ($)"]
    ELSE Num(70081)

\* C6: the last row of the P&L listing is "Net Operating Profit" and its amount
\* is the most recent period's "Profit Margin ($)" cell itself.
C6_NetOperatingProfitIsField ==
    result.kind = "returned" =>
        /\ Len(result.pl_table) = 10
        /\ result.pl_table[10].Item = "Net Operating Profit"
        /\ result.pl_table[10].Amount = LastProfitMargin

C6_Witness ==
    /\ result.kind = "returned"
    /\ result.status.kind = "success"
    /\ result.pl_table[10].Amount = Num(5)
    /\ Sub(Sub(result.pl_table[1].Amount, result.pl_table[2].Amount),
           result.pl_table[8].Amount) # Num(5)

C8_DefaultAverages ==
    (result.kind = "returned" /\ result.status.kind # "success") =>
        LET t == result.perf_section.perf_table
            sums == <<2197394, 1102542, 857084, 237769, 53>>
        IN  /\ Len(t) = 5
            /\ \A i \in 1..5 :
                  /\ t[i].Metric = budget_items[i]
                  /\ IsNum(t[i].Average)
                  /\ 5 * t[i].Average.n = sums[i] * t[i].Average.d
            /\ 10 * t[1].Average.n = 4394788 * t[1].Average.d

C8_Witness ==
    /\ result.kind = "returned"
    /\ result.status.kind = "failed"
    /\ result.perf_section.perf_table[1].Average = Rat(2197394, 5)

\* C9: what the page shows after an event is decided by that event alone: the
\* default artifacts for no upload or a rejected one, the upload's own figures
\* for an accepted one.
C9_ShownFromLastEventOnly ==
    result.kind # "idle" =>
        IF contents.kind = "upload" /\ parse_contents(contents, filename).ok
        THEN /\ shown.fig_rev.x = Col(contents.table, "Year")
             /\ shown.fig_rev.bars[1] = Col(contents.table, "Business 1")
             /\ shown.fig_exp.areas[4] = Col(contents.table, "Interest")
        ELSE SameArtifacts(shown, app_layout)

\* C10: after every cycle the status line is the sample-data message exactly
\* when nothing was uploaded, the success message naming the file exactly when
\* parse_contents returned, and the failure message naming the file and the
\* error otherwise.
C10_StatusAgrees ==
    result.kind # "idle" =>
        LET accepted == contents.kind = "upload" /\ parse_contents(contents, filename).ok
        IN  /\ (shown.status.kind = "sample") <=> (contents.kind = "none")
            /\ (shown.status.kind = "success" /\ shown.status.filename = filename)
                  <=> accepted
            /\ (contents.kind = "upload" /\ ~accepted) =>
                  /\ shown.status.kind = "failed"
                  /\ shown.status.filename = filename
                  /\ shown.status.error = parse_contents(contents, filename).error
                  /\ SameArtifacts(shown, app_layout)

\* every cell a returned cycle puts into one of its eight artifacts
ArtifactCells(r) ==
    LET series == <<r.fig_rev.x, r.fig_rev.bars[1], r.fig_rev.bars[2], r.fig_rev.bars[3],
                    r.fig_pm.x, r.fig_pm.bar, r.fig_pm.line,
                    r.fig_cum.y, r.fig_cum.text,
                    r.fig_exp.x, r.fig_exp.areas[1], r.fig_exp.areas[2],
                    r.fig_exp.areas[3], r.fig_exp.areas[4],
                    r.perf_section.perf_graph.x,
                    r.perf_section.perf_graph.series[1],
                    r.perf_section.perf_graph.series[2],
                    r.perf_section.perf_graph.series[3],
                    r.perf_section.perf_graph.series[4],
                    r.perf_section.perf_graph.series[5]>>
    IN  UNION {Range(series[i]) : i \in DOMAIN series}
        \cup {r.perf_section.perf_table[i].Average : i \in DOMAIN r.perf_section.perf_table}
        \cup UNION {{r.is_table[i].Actual, r.is_table[i].Budget, r.is_table[i].Variance,
                     r.is_table[i].VarPct} : i \in DOMAIN r.is_table}
        \cup {r.pl_table[i].Amount : i \in DOMAIN r.pl_table}
        \cup {r.bs_section[i].value : i \in DOMAIN r.bs_section}

\* a decoded table that carries "Total" and "Total Expenses" and every other
\* required column
BothTotalsUpload ==
    /\ DecodedTable
    /\ "Total" \in Range(contents.table.columns)
    /\ "Total Expenses" \in Range(contents.table.columns)
    /\ MissingAfterAlias(contents.table) = {}

\* C11: for a table with both "Total" and "Total Expenses" the upload is
\* accepted without a rename: the expense "Total" field holds the "Total
\* Expenses" column, the expense listing and the budget table show its last
\* value, and no "Total" value of the table is in any artifact.
C11_BothTotalsKeepTotalExpenses ==
    BothTotalsUpload =>
        /\ parse_contents(contents, filename).ok
        /\ dataset.expenses_df.columns = default_exp_cols
        /\ Col(dataset.expenses_df, "Total") = Col(contents.table, "Total Expenses")
        /\ result.kind = "returned" =>
              /\ result.pl_table[8].Amount =
                    contents.table.rows[Len(contents.table.rows)]["Total Expenses"]
              /\ result.is_table[3].Actual =
                    contents.table.rows[Len(contents.table.rows)]["Total Expenses"]
              /\ result.perf_section.perf_graph.series[3] =
                    Col(contents.table, "Total Expenses")
              /\ \A i \in DOMAIN contents.table.rows :
                    contents.table.rows[i]["Total"] \notin ArtifactCells(result)

C11_Witness ==
    /\ BothTotalsUpload
    /\ Len(contents.table.rows) = 2
    /\ result.kind = "returned"
    /\ result.status.kind = "success"
    /\ contents.table.rows[2]["Total"] # contents.table.rows[2]["Total Expenses"]
    /\ contents.table.rows[1]["Total"] # contents.table.rows[2]["Total"]

\* an accepted upload whose cycle returned, and the last row of its file
AcceptedReturned ==
    /\ DecodedTable
    /\ MissingAfterAlias(contents.table) = {}
    /\ result.kind = "returned"

LastUploadRow == contents.table.rows[Len(contents.table.rows)]

\* the cell of the last row that the expense total is read from
LastTotalExpenses ==
    IF "Total Expenses" \in Range(contents.table.columns)
    THEN LastUploadRow["Total Expenses"]
    ELSE LastUploadRow["Total"]

\* C12: for an accepted upload the waterfall, the actual/budget/variance table
\* and the P&L listing all show the last row of the file, whatever its Year
\* label, and take revenue-side and expense-side figures from that one row.
C12_MostRecentIsLastRow ==
    AcceptedReturned =>
        LET row == LastUploadRow
        IN  /\ result.fig_cum.y = <<row["Business 1"], row["Business 2"],
                                    row["Business 3"], row["Consolidated"]>>
            /\ result.is_table[1].Actual = row["Consolidated"]
            /\ result.is_table[2].Actual = row["COGS"]
            /\ result.is_table[3].Actual = LastTotalExpenses
            /\ result.is_table[4].Actual = row["Profit Margin ($)"]
            /\ result.is_table[5].Actual = Mul(row["Profit Margin (%)"], Num(100))
            /\ result.pl_table[1].Amount = row["Consolidated"]
            /\ result.pl_table[2].Amount = row["COGS"]
            /\ result.pl_table[4].Amount = row["Salaries and Benefits"]
            /\ result.pl_table[5].Amount = row["Rent and Overhead"]
            /\ result.pl_table[6].Amount = row["Depreciation & Amortization"]
            /\ result.pl_table[7].Amount = row["Interest"]
            /\ result.pl_table[8].Amount = LastTotalExpenses
            /\ result.pl_table[10].Amount = row["Profit Margin ($)"]

\* the file's last row carries the earlier label and differs from the first
C12_Witness ==
    /\ AcceptedReturned
    /\ result.status.kind = "success"
    /\ Len(contents.table.rows) = 2
    /\ "Total Expenses" \in Range(contents.table.columns)
    /\ contents.table.rows[1]["Year"] = Str("Year 1")
    /\ contents.table.rows[2]["Year"] = Str("Year 0")
    /\ result.fig_cum.y[4] = Num(13)
    /\ result.pl_table[8].Amount # contents.table.rows[1]["Total Expenses"]

\* the column of the upload behind each line of the averages table
MetricColumn(i) ==
    CASE i = 1 -> Col(contents.table, "Consolidated")
      [] i = 2 -> Col(contents.table, "COGS")
      [] i = 3 -> IF "Total Expenses" \in Range(contents.table.columns)
                  THEN Col(contents.table, "Total Expenses")
                  ELSE Col(contents.table, "Total")
      [] i = 4 -> Col(contents.table, "Profit Margin ($)")
      [] i = 5 -> Scale100(Col(contents.table, "Profit Margin (%)"))

====
